---- MODULE Spec2Model ----
(***************************************************************************)
(* The ink! contract UnitTestBug (src/lib.rs): one stored bool, two        *)
(* constructors, the message flip_with_error, which negates the stored     *)
(* bool and then returns Err(FlipError::FlipError), and the query get.     *)
(*                                                                         *)
(* The contract is driven in the two ways its own tests drive it:          *)
(*   env = "unit"  the #[ink::test] unit tests call the methods directly   *)
(*                 on a Rust object (mod tests);                           *)
(*   env = "e2e"   the #[ink_e2e::test] tests instantiate the contract on  *)
(*                 a node and dispatch messages through the client         *)
(*                 (mod e2e_tests): the host loads the instance from       *)
(*                 storage, runs the message and keeps the instance's      *)
(*                 writes only when the message did not return Err.        *)
(*                                                                         *)
(* flip_with_error is modelled statement by statement: line 42 (the write) *)
(* and line 44 (the return) are separate steps.                            *)
(***************************************************************************)
EXTENDS Naturals, Sequences, FiniteSets

VARIABLES
    pc,       \* position of the single caller: "start", "idle", "flip_42", "flip_44", "host_end"
    env,      \* "none" before construction, then "unit" or "e2e"
    ctor,     \* the constructor that was run and its argument
    init,     \* <<v>>: the value the contract held right after construction
    self,     \* <<s>>: the live instance (a UnitTestBug struct), <<>> when there is none
    storage,  \* <<s>>: the contract's on-chain storage (e2e), <<>> when there is none
    pre,      \* <<v>>: the value get() would have returned when the current/last flip_with_error began
    rets,     \* the results of the flip_with_error calls that have returned, in order
    gets      \* the get() calls made: [val |-> returned value, at |-> Len(rets) at the call]

vars == <<pc, env, ctor, init, self, storage, pre, rets, gets>>

\* ---- bounds ----
MaxCalls == 4
MaxGets == 3

\* ---- types of the source ----
\* enum FlipError { FlipError }
FlipError == {"FlipError"}

\* Result<(), FlipError>
Ok == [tag |-> "Ok", err |-> "none"]
Err(e) == [tag |-> "Err", err |-> e]
ResultType == {Ok} \cup {Err(e) : e \in FlipError}

\* struct UnitTestBug { value: bool }
UnitTestBug == [value : BOOLEAN]

\* <bool as Default>::default(), the argument default() hands to new()
DefaultBool == FALSE

\* ---- the contract's functions ----
new_ignores_arg(init_value) == [value |-> DefaultBool]
\* pub fn new(init_value: bool) -> Self { Self { value: init_value } }
new(init_value) == [value |-> init_value]

default_true == new(TRUE)
\* pub fn default() -> Self { Self::new(Default::default()) }
default == new(DefaultBool)

\* pub fn get(&self) -> bool { self.value }
get(s) == s.value

flip_no_write(s) == s
flip_sets_true(s) == [s EXCEPT !.value = TRUE]
\* line 42: self.value = !self.value;
flip_write(s) == [s EXCEPT !.value = ~s.value]

flip_returns_ok == Ok
\* line 44: Err(FlipError::FlipError)
flip_result == Err("FlipError")

\* ---- helpers ----
Last(s) == s[Len(s)]

InFlight == pc \in {"flip_42", "flip_44", "host_end"}

\* What a get() issued now would return (defined once the contract exists).
Observed == IF env = "unit" THEN get(self[1]) ELSE get(storage[1])

Init ==
    /\ pc = "start"
    /\ env = "none"
    /\ ctor = [name |-> "none", arg |-> <<>>]
    /\ init = <<>>
    /\ self = <<>>
    /\ storage = <<>>
    /\ pre = <<>>
    /\ rets = <<>>
    /\ gets = <<>>

\* ---- unit tests: direct calls on the object ----

\* let mut unit_test_bug = UnitTestBug::new(b);
New(b) ==
    /\ pc = "start"
    /\ pc' = "idle"
    /\ env' = "unit"
    /\ ctor' = [name |-> "new", arg |-> <<b>>]
    /\ self' = <<new(b)>>
    /\ init' = <<self'[1].value>>
    /\ UNCHANGED <<storage, pre, rets, gets>>

\* let unit_test_bug = UnitTestBug::default();
Default ==
    /\ pc = "start"
    /\ pc' = "idle"
    /\ env' = "unit"
    /\ ctor' = [name |-> "default", arg |-> <<>>]
    /\ self' = <<default>>
    /\ init' = <<self'[1].value>>
    /\ UNCHANGED <<storage, pre, rets, gets>>

\* unit_test_bug.flip_with_error(): the call is entered
FlipCall ==
    /\ pc = "idle"
    /\ env = "unit"
    /\ Len(rets) < MaxCalls
    /\ pc' = "flip_42"
    /\ pre' = <<get(self[1])>>
    /\ UNCHANGED <<env, ctor, init, self, storage, rets, gets>>

GetUnitWrites ==
    /\ pc = "idle"
    /\ env = "unit"
    /\ Len(gets) < MaxGets
    /\ gets' = Append(gets, [val |-> get(self[1]), at |-> Len(rets)])
    /\ self' = <<flip_write(self[1])>>
    /\ UNCHANGED <<pc, env, ctor, init, storage, pre, rets>>
\* unit_test_bug.get()
GetUnit ==
    /\ pc = "idle"
    /\ env = "unit"
    /\ Len(gets) < MaxGets
    /\ gets' = Append(gets, [val |-> get(self[1]), at |-> Len(rets)])
    /\ UNCHANGED <<pc, env, ctor, init, self, storage, pre, rets>>

\* ---- the body of flip_with_error, shared by both ways of calling it ----

\* line 42: self.value = !self.value;
FlipWrite ==
    /\ pc = "flip_42"
    /\ self' = <<flip_write(self[1])>>
    /\ pc' = "flip_44"
    /\ UNCHANGED <<env, ctor, init, storage, pre, rets, gets>>

FlipSuspends ==
    /\ pc = "flip_44"
    /\ UNCHANGED vars
\* line 44: Err(FlipError::FlipError) is returned to the caller
FlipReturn ==
    /\ pc = "flip_44"
    /\ rets' = Append(rets, flip_result)
    /\ pc' = IF env = "unit" THEN "idle" ELSE "host_end"
    /\ UNCHANGED <<env, ctor, init, self, storage, pre, gets>>

\* ---- e2e tests: calls dispatched by the host ----

\* client.instantiate(.., UnitTestBugRef::new(b), ..)
InstantiateNew(b) ==
    /\ pc = "start"
    /\ pc' = "idle"
    /\ env' = "e2e"
    /\ ctor' = [name |-> "new", arg |-> <<b>>]
    /\ storage' = <<new(b)>>
    /\ init' = <<storage'[1].value>>
    /\ UNCHANGED <<self, pre, rets, gets>>

\* client.instantiate(.., UnitTestBugRef::default(), ..)
InstantiateDefault ==
    /\ pc = "start"
    /\ pc' = "idle"
    /\ env' = "e2e"
    /\ ctor' = [name |-> "default", arg |-> <<>>]
    /\ storage' = <<default>>
    /\ init' = <<storage'[1].value>>
    /\ UNCHANGED <<self, pre, rets, gets>>

\* client.call(.., flip, ..): the host loads the instance from storage and enters the message
HostCallFlip ==
    /\ pc = "idle"
    /\ env = "e2e"
    /\ Len(rets) < MaxCalls
    /\ self' = storage
    /\ pre' = <<get(storage[1])>>
    /\ pc' = "flip_42"
    /\ UNCHANGED <<env, ctor, init, storage, rets, gets>>

\* the message has returned: the host keeps the instance's writes unless it returned Err
HostFinish ==
    /\ pc = "host_end"
    /\ storage' = IF Last(rets).tag = "Err" THEN storage ELSE self
    /\ self' = <<>>
    /\ pc' = "idle"
    /\ UNCHANGED <<env, ctor, init, pre, rets, gets>>

\* client.call_dry_run(.., get, ..): get() on an instance loaded from storage; nothing is kept
HostGet ==
    /\ pc = "idle"
    /\ env = "e2e"
    /\ Len(gets) < MaxGets
    /\ gets' = Append(gets, [val |-> get(storage[1]), at |-> Len(rets)])
    /\ UNCHANGED <<pc, env, ctor, init, self, storage, pre, rets>>

Next ==
    \/ \E b \in BOOLEAN : New(b)
    \/ Default
    \/ FlipCall
    \/ GetUnit
    \/ FlipWrite
    \/ FlipReturn
    \/ \E b \in BOOLEAN : InstantiateNew(b)
    \/ InstantiateDefault
    \/ HostCallFlip
    \/ HostFinish
    \/ HostGet

Spec == Init /\ [][Next]_vars

\* flip_with_error is straight-line code with no loop, no await and no
\* blocking call, and the host finishes a dispatched message: a call that
\* has been entered keeps stepping.
FairSpec ==
    /\ Spec
    /\ WF_vars(FlipWrite)
    /\ WF_vars(FlipReturn)
    /\ WF_vars(HostFinish)

\* ---- properties ----

\* C1: atomicity of a failing call: once a flip_with_error call has returned
\* Err, get() returns what it returned immediately before that call.
C1_FailedCallLeavesValue ==
    (pc = "idle" /\ rets # <<>> /\ Last(rets).tag = "Err") => Observed = pre[1]

\* C2: every flip_with_error call returns Err(FlipError::FlipError); Ok(()) is
\* never returned and FlipError has no other kind.
C2_AlwaysErr ==
    /\ \A i \in DOMAIN rets : rets[i] = Err("FlipError") /\ rets[i] # Ok
    /\ ResultType \ {Ok} = {Err("FlipError")}

C2_Witness ==
    /\ pc = "idle"
    /\ Len(rets) >= 2
    /\ init = <<TRUE>>

\* C3: after two flip_with_error calls on a fresh contract both have returned
\* Err and get() equals the value the contract was constructed with.
C3_TwoCalls ==
    (pc = "idle" /\ Len(rets) = 2) =>
        /\ rets = <<Err("FlipError"), Err("FlipError")>>
        /\ Observed = init[1]

C3_Witness ==
    /\ pc = "idle"
    /\ env = "unit"
    /\ Len(rets) = 2
    /\ init = <<FALSE>>
    /\ gets # <<>>
    /\ Last(gets).at = 2

\* C4: a contract created by default() is in the state new(false) creates,
\* and get() on it returns false before any other call.
C4_Default ==
    ctor.name = "default" =>
        /\ (pc = "idle" /\ rets = <<>>) =>
              /\ env = "unit" => self = <<new(FALSE)>>
              /\ env = "e2e" => storage = <<new(FALSE)>>
              /\ Observed = FALSE
        /\ \A i \in DOMAIN gets : gets[i].at = 0 => gets[i].val = FALSE

C4_Witness ==
    /\ ctor.name = "default"
    /\ rets = <<>>
    /\ gets # <<>>

\* C5: new(init) always yields a contract, and get() on it before any other
\* call returns init, for both values of init.
C5_New ==
    ctor.name = "new" =>
        /\ pc # "start"
        /\ env = "unit" => (self # <<>> /\ self[1] \in UnitTestBug)
        /\ env = "e2e" => (storage # <<>> /\ storage[1] \in UnitTestBug)
        /\ (pc = "idle" /\ rets = <<>>) => Observed = ctor.arg[1]
        /\ \A i \in DOMAIN gets : gets[i].at = 0 => gets[i].val = ctor.arg[1]

C5_Witness ==
    /\ ctor = [name |-> "new", arg |-> <<TRUE>>]
    /\ rets = <<>>
    /\ gets # <<>>

\* C6: get() is a pure query: a get() step returns a bool, the value now
\* stored, and changes neither the instance, the storage nor the caller's
\* position; two get() calls with no flip_with_error between them return the
\* same value; after construction the stored value changes only inside a
\* flip_with_error call.
C6_GetPure ==
    /\ [][gets' # gets =>
            /\ Len(gets') = Len(gets) + 1
            /\ Last(gets').val \in BOOLEAN
            /\ Last(gets').val = Observed
            /\ UNCHANGED <<pc, self, storage, rets>>]_vars
    /\ [](\A i, j \in DOMAIN gets : gets[i].at = gets[j].at => gets[i].val = gets[j].val)
    /\ [][(pc # "start" /\ Observed' # Observed) => InFlight]_vars

C6_Witness ==
    /\ Len(gets) >= 2
    /\ gets[1].at = gets[2].at
    /\ gets[1].at >= 1
    /\ env = "unit"

\* C7: compute-then-decide: inside a flip_with_error call the instance is not
\* written before the outcome is known, so at the return statement the
\* instance still holds its pre-call value.
C7_NoWriteBeforeOutcome ==
    pc = "flip_44" => get(self[1]) = pre[1]

\* C8: direct execution (unit tests): every returned flip_with_error call has
\* returned Err and left the value negated; get() equals the constructor
\* value exactly after an even number of calls; after new(false) and one call
\* get() returns true, so the unit test's assertion get() == false fails.
C8_DirectNegates ==
    env = "unit" =>
        /\ (pc = "idle" /\ rets # <<>>) =>
              /\ Last(rets) = Err("FlipError")
              /\ get(self[1]) = ~pre[1]
        /\ pc = "idle" => ((get(self[1]) = init[1]) <=> (Len(rets) % 2 = 0))
        /\ \A i \in DOMAIN gets : (gets[i].val = init[1]) <=> (gets[i].at % 2 = 0)
        /\ ctor = [name |-> "new", arg |-> <<FALSE>>] =>
              \A i \in DOMAIN gets : gets[i].at = 1 => gets[i].val # FALSE

\* the run of tests::it_works: new(false), get(), flip_with_error(), get()
C8_Witness ==
    /\ env = "unit"
    /\ ctor = [name |-> "new", arg |-> <<FALSE>>]
    /\ rets = <<Err("FlipError")>>
    /\ gets = <<[val |-> FALSE, at |-> 0], [val |-> TRUE, at |-> 1]>>

\* C9: host-dispatched execution (e2e tests): the host discards the writes of
\* a message that returned Err, so the on-chain value get() reads after a
\* flip_with_error call is the one read before it, after any number of calls.
C9_HostReverts ==
    env = "e2e" =>
        /\ (pc = "idle" /\ rets # <<>>) => Observed = pre[1]
        /\ get(storage[1]) = init[1]
        /\ \A i \in DOMAIN gets : gets[i].val = init[1]

\* the run of e2e_tests::it_works: new(false), get, flip_with_error, get
C9_Witness ==
    /\ env = "e2e"
    /\ ctor = [name |-> "new", arg |-> <<FALSE>>]
    /\ pc = "idle"
    /\ Len(rets) = 1
    /\ gets = <<[val |-> FALSE, at |-> 0], [val |-> FALSE, at |-> 1]>>

\* C10: run to completion: a flip_with_error call that has started returns
\* and the caller is idle again, and every get() runs while no call is in
\* flight.
C10_RunToCompletion ==
    /\ InFlight ~> (pc = "idle")
    /\ [][gets' # gets => (~InFlight /\ ~InFlight')]_vars

C10_Witness ==
    /\ pc = "idle"
    /\ Len(rets) >= 1
    /\ gets # <<>>
    /\ Last(gets).at >= 1

====
